---- MODULE Spec2Model ----
(***************************************************************************)
(* Model of the autoposting service (src/services/autopost.py):            *)
(*   - sanitize_post_text, the pure text sanitizer (SpecSanitize);         *)
(*   - AutoPostService._sanitize_plan, the plan validator (SpecPlan);      *)
(*   - AutoPostService.run, one invocation of the autopost run (Spec).     *)
(* Texts are sequences of one-character strings, so that splitting,        *)
(* stripping, lower-casing, joining and collapsing are computed character  *)
(* by character as the Python code computes them.                          *)
(***************************************************************************)
EXTENDS Integers, Sequences, FiniteSets, TLC

VARIABLES
    text,       \* sanitizer: the input text
    clean,      \* sanitizer: sanitize_post_text(text)
    reclean,    \* sanitizer: sanitize_post_text(clean)
    sanStage,   \* sanitizer: 0 = input drawn, 1 = sanitized, 2 = sanitized twice
    rawPlan,    \* plan validator: the raw plan handed to _sanitize_plan
    planOut,    \* plan validator: what _sanitize_plan did with it
    planStage,  \* plan validator: 0 = input drawn, 1 = validated
    pc,            \* run: where run() is
    tier_manager,  \* run: self.tier_manager, "absent" (None) or "present"
    messages,      \* run: the conversation
    plan,          \* run: the validated plan
    step_i,        \* run: the index of the plan step the loop is at
    image_bytes,   \* run: None, or what generate_image returned
    media_ids,     \* run: None, or the list with the uploaded media id
    post_text,     \* run: the text to publish
    tweet_id,      \* run: None, or tweet_data["id"]
    attempt,       \* run: the number of failed attempts of the publish loop
    slept,         \* run: the seconds spent in time.sleep
    result,        \* run: what run() returned
    calls,         \* run: the calls made to the collaborators, in order
    raised,        \* run: the exceptions raised, in order
    task_pc,       \* event loop: the await each invocation of run() is suspended at
    task_steps,    \* event loop: the plan steps each invocation has still to do
    task_image,    \* event loop: whether the last of these steps is the image step
    task_attempt,  \* event loop: the failed publish attempts of each invocation
    sleeper,       \* event loop: the invocation inside time.sleep, 0 if none
    sleep_left     \* event loop: the seconds its time.sleep has still to wait

sanVars == <<text, clean, reclean, sanStage>>
planVars == <<rawPlan, planOut, planStage>>
runVars == <<pc, tier_manager, messages, plan, step_i, image_bytes, media_ids,
             post_text, tweet_id, attempt, slept, result, calls, raised>>
loopVars == <<task_pc, task_steps, task_image, task_attempt, sleeper, sleep_left>>
vars == <<sanVars, planVars, runVars, loopVars>>

-----------------------------------------------------------------------------
(* Bounds of the model.                                                    *)

\* the input texts of SpecSanitize are concatenations of at most MaxPieces pieces
MaxPieces == 4

\* the raw plans of SpecPlan are lists of at most MaxPlanLen entries
MaxPlanLen == 4

-----------------------------------------------------------------------------
(* Characters and strings.                                                 *)

\* the characters str.splitlines() breaks a line on (those of the alphabet)
LineBreaks == {"\n", "\r"}

\* the characters str.strip() strips and the regex class \s matches
Whitespace == {" ", "\t", "\n", "\r"}

\* str.lower() on one character
LowerChar(c) ==
    CASE c = "I" -> "i"
      [] c = "M" -> "m"
      [] c = "A" -> "a"
      [] c = "G" -> "g"
      [] c = "E" -> "e"
      [] OTHER -> c

\* str.lower()
Lower(s) == [i \in 1..Len(s) |-> LowerChar(s[i])]

\* str.startswith(p)
StartsWith(s, p) == Len(s) >= Len(p) /\ SubSeq(s, 1, Len(p)) = p

\* str.endswith(p)
EndsWith(s, p) == Len(s) >= Len(p) /\ SubSeq(s, Len(s) - Len(p) + 1, Len(s)) = p

RECURSIVE LStrip(_)
\* str.lstrip()
LStrip(s) == IF s # <<>> /\ Head(s) \in Whitespace THEN LStrip(Tail(s)) ELSE s

RECURSIVE RStrip(_)
\* str.rstrip()
RStrip(s) ==
    IF s # <<>> /\ s[Len(s)] \in Whitespace THEN RStrip(SubSeq(s, 1, Len(s) - 1)) ELSE s

\* str.strip()
Strip(s) == RStrip(LStrip(s))

RECURSIVE SplitFrom(_, _, _)
\* str.splitlines() from position i on, cur being the line read so far: a line
\* break ends the line ("\r\n" is one break) and a trailing break opens no line
SplitFrom(s, i, cur) ==
    IF i > Len(s) THEN (IF cur = <<>> THEN <<>> ELSE <<cur>>)
    ELSE IF s[i] = "\r" /\ i < Len(s) /\ s[i + 1] = "\n"
         THEN <<cur>> \o SplitFrom(s, i + 2, <<>>)
    ELSE IF s[i] \in LineBreaks THEN <<cur>> \o SplitFrom(s, i + 1, <<>>)
    ELSE SplitFrom(s, i + 1, Append(cur, s[i]))

\* str.splitlines()
SplitLines(s) == SplitFrom(s, 1, <<>>)

\* the image marker a line must not start with
ImageMarker == <<"[", "i", "m", "a", "g", "e">>

\* the mutant of KeepLine that forgets .lower()
KeepLineCaseSensitive(s) ==
    /\ s # <<>>
    /\ ~StartsWith(s, ImageMarker)
    /\ ~(StartsWith(s, <<"{">>) \/ EndsWith(s, <<"}">>))

\* the three `continue` tests of the loop body on a stripped line s: the line
\* is kept unless it is blank, starts with the marker or opens/closes a brace
KeepLine(s) ==
    /\ s # <<>>
    /\ ~StartsWith(Lower(s), ImageMarker)
    /\ ~(StartsWith(s, <<"{">>) \/ EndsWith(s, <<"}">>))

RECURSIVE KeptLines(_)
\* the loop over text.splitlines(): the stripped lines that are kept, in order
KeptLines(ls) ==
    IF ls = <<>> THEN <<>>
    ELSE LET s == Strip(Head(ls))
         IN  (IF KeepLine(s) THEN <<s>> ELSE <<>>) \o KeptLines(Tail(ls))

RECURSIVE JoinNoSeparator(_)
\* the mutant of JoinSpace that joins with the empty string
JoinNoSeparator(ls) ==
    IF ls = <<>> THEN <<>> ELSE Head(ls) \o JoinNoSeparator(Tail(ls))

RECURSIVE JoinSpace(_)
\* " ".join(lines)
JoinSpace(ls) ==
    IF ls = <<>> THEN <<>>
    ELSE IF Len(ls) = 1 THEN Head(ls)
    ELSE Head(ls) \o <<" ">> \o JoinSpace(Tail(ls))

\* the mutant of CollapseWs that leaves the runs of whitespace as they are
CollapseNothing(s) == s

RECURSIVE CollapseWs(_)
\* re.sub(r"\s+", " ", s): every maximal run of whitespace becomes one space
CollapseWs(s) ==
    IF s = <<>> THEN <<>>
    ELSE IF Head(s) \in Whitespace
         THEN <<" ">> \o CollapseWs(LStrip(s))
    ELSE <<Head(s)>> \o CollapseWs(Tail(s))

\* sanitize_post_text on a str
sanitize_post_text(t) ==
    IF t = <<>> THEN <<>>
    ELSE Strip(CollapseWs(JoinSpace(KeptLines(SplitLines(t)))))

-----------------------------------------------------------------------------
(* The plan validator, AutoPostService._sanitize_plan.                     *)
(* A raw plan is a decoded JSON value: [kind |-> "list", items |-> ...] or *)
(* a value that is no list. An entry of the list is a mapping              *)
(* [kind |-> "dict", tool |-> ..., params |-> ...] or a value that is no   *)
(* mapping; an absent "tool" key reads as NoTool, an absent "params" key   *)
(* as NoParams, and a "tool" that is a JSON list or object (which `in`     *)
(* cannot hash) as UnhashableTool.                                         *)

\* the name of the image tool
GenerateImage == "generate_image"

\* the keys of the tool registry
TOOLS == {"generate_image", "web_search"}

NoTool == "<absent>"
UnhashableTool == "<unhashable>"
NoParams == "<absent>"

\* the value of an empty mapping, the default of step.get("params", {})
EmptyParams == "{}"

\* a mapping without the key "prompt", and a value that is no mapping
ParamsNotMapping == "<no mapping>"

\* the plan is cut after this many accepted steps
MaxSteps == 3

\* the mutant of GetParams that gives every step the default params
GetParamsDefault(step) == EmptyParams

\* step.get("params", {})
GetParams(step) == IF step.params = NoParams THEN EmptyParams ELSE step.params

\* the mutant of ToolInRegistry that accepts every tool that is named
ToolNamed(tool_name) == tool_name # NoTool

\* tool_name in TOOLS, for a tool_name that can be hashed
ToolInRegistry(tool_name) == tool_name \in TOOLS

\* the mutant of ImageStepsLast that returns the accepted steps as they are
StepsAsAccepted(sanitized) == sanitized

\* non_image_steps + image_steps[:1]
ImageStepsLast(sanitized) ==
    LET image_steps == SelectSeq(sanitized, LAMBDA s : s.tool = GenerateImage)
        non_image_steps == SelectSeq(sanitized, LAMBDA s : s.tool # GenerateImage)
    IN  non_image_steps \o SubSeq(image_steps, 1, IF Len(image_steps) >= 1 THEN 1 ELSE 0)

RECURSIVE PlanLoop(_, _, _, _)
\* the loop over the raw list from entry i on: sanitized are the accepted steps
\* and has_image says whether an image step is among them. The loop ends with
\* the accepted steps, or raises TypeError on a tool that cannot be hashed.
PlanLoop(items, i, sanitized, has_image) ==
    IF i > Len(items) THEN [raised |-> FALSE, steps |-> sanitized]
    ELSE LET step == items[i]
         IN  IF step.kind # "dict" THEN PlanLoop(items, i + 1, sanitized, has_image)
             ELSE IF step.tool = UnhashableTool THEN [raised |-> TRUE, steps |-> <<>>]
             ELSE IF ~ToolInRegistry(step.tool)
                  THEN PlanLoop(items, i + 1, sanitized, has_image)
             ELSE IF step.tool = GenerateImage /\ has_image
                  THEN PlanLoop(items, i + 1, sanitized, has_image)
             ELSE LET accepted ==
                          Append(sanitized, [tool |-> step.tool, params |-> GetParams(step)])
                      image == has_image \/ step.tool = GenerateImage
                  IN  IF Len(accepted) >= MaxSteps
                      THEN [raised |-> FALSE, steps |-> accepted]
                      ELSE PlanLoop(items, i + 1, accepted, image)

\* _sanitize_plan(raw): [raised |-> FALSE, steps |-> the validated plan], or
\* [raised |-> TRUE, ...] when it raises
sanitize_plan(raw) ==
    IF raw.kind # "list" THEN [raised |-> FALSE, steps |-> <<>>]
    ELSE LET loop == PlanLoop(raw.items, 1, <<>>, FALSE)
         IN  IF loop.raised THEN loop
             ELSE [raised |-> FALSE, steps |-> ImageStepsLast(loop.steps)]

-----------------------------------------------------------------------------
(* AutoPostService.run: the values it handles.                             *)

\* one character repeated n times
Rep(c, n) == [i \in 1..n |-> c]

\* the elements of a sequence
Range(s) == {s[i] : i \in 1..Len(s)}

\* FALLBACK_TWEETS: the string literals of the list have no commas between
\* them, so Python concatenates them and the list holds ONE string. Its
\* characters stand here for that one string (which has more than 20).
FALLBACK_TWEETS ==
    << <<"l", "i", "q", "u", "i", "d", "i", "t", "y", " ", "c", "o", "n", "t", "i", "n",
         "u", "e", "s", " ", "t", "o", " ", "r", "e", "t", "u", "r", "n">> >>

\* a post text shorter than this is replaced by a fallback
MinPostLen == 20

\* the number of attempts to publish the candidate text
MaxAttempts == 3

\* time.sleep(5) after a failed attempt
SleepSeconds == 5

\* Python's None, for the variables that hold None or a value
None == "None"

\* what generate_image returns: bytes, b"" (falsy, but not None) or None
Bytes == "bytes"
EmptyBytes == "b''"

\* the params of a step: mappings with a prompt, and EmptyParams/ParamsNotMapping
PromptX == "{prompt: x}"
PromptY == "{prompt: y}"

\* params.get("prompt", "")
GetPrompt(params) ==
    CASE params = PromptX -> "x"
      [] params = PromptY -> "y"
      [] OTHER -> ""

\* JSON values: objects are records of their keys (an absent key reads Absent)
Absent == [type |-> "absent"]
JNull == [type |-> "null"]
JNumber == [type |-> "number"]
JArray == [type |-> "array"]
JString(chars) == [type |-> "string", chars |-> chars]
PlanObject(p) == [type |-> "object", plan |-> p, post_text |-> Absent, thinking |-> Absent]
PostObject(t) == [type |-> "object", plan |-> Absent, post_text |-> t, thinking |-> Absent]
ReactionObject(t) == [type |-> "object", plan |-> Absent, post_text |-> Absent, thinking |-> t]
EmptyObject == [type |-> "object", plan |-> Absent, post_text |-> Absent, thinking |-> Absent]

\* what llm.chat returns: a mapping the client decoded already, raw text (with
\* what json.loads makes of it: a JSON value, or Invalid when it raises), or None
Invalid == [type |-> "invalid"]
Decoded(v) == [kind |-> "dict", value |-> v]
RawText(chars, parse) == [kind |-> "text", chars |-> chars, parse |-> parse]
NoResponse == [kind |-> "none"]

\* raw plans
RawList(items) == [kind |-> "list", items |-> items]
NotAList == [kind |-> "other"]
NotADict == [kind |-> "other"]
Step(tool, params) == [kind |-> "dict", tool |-> tool, params |-> params]

\* the plan responses the model can give
PlanResponses ==
    { Decoded(PlanObject(RawList(<<>>))),
      Decoded(EmptyObject),
      Decoded(PlanObject(NotAList)),
      Decoded(PlanObject(RawList(<<Step(GenerateImage, PromptX)>>))),
      Decoded(PlanObject(RawList(<<Step(GenerateImage, ParamsNotMapping)>>))),
      Decoded(PlanObject(RawList(<<Step("web_search", PromptY)>>))),
      Decoded(PlanObject(RawList(<<Step(GenerateImage, NoParams), NotADict,
                                   Step("web_search", PromptX)>>))),
      Decoded(PlanObject(RawList(<<Step("web_search", PromptX), Step("web_search", PromptY),
                                   Step("unknown_tool", NoParams),
                                   Step("web_search", EmptyParams),
                                   Step(GenerateImage, PromptX)>>))),
      Decoded(PlanObject(RawList(<<Step(UnhashableTool, NoParams)>>))),
      RawText(<<"{", "}">>, EmptyObject),
      RawText(<<"{", "p", "}">>,
              PlanObject(RawList(<<Step("web_search", PromptX),
                                   Step(GenerateImage, PromptY)>>))),
      RawText(<<"[", "]">>, JArray),
      RawText(<<"7">>, JNumber),
      RawText(<<"n", "u", "l", "l">>, JNull),
      RawText(<<"n", "o">>, Invalid),
      NoResponse }

\* the reaction responses the model can give
ReactionResponses ==
    { Decoded(ReactionObject(JString(<<"o", "k">>))),
      Decoded(EmptyObject),
      RawText(<<"o", "k">>, Invalid),
      NoResponse }

\* post texts: 20 characters that stay, 19 that stay, a marker line and a JSON
\* line before a line of 24, and 20 characters of which 16 stay
Text20 == Rep("x", 10) \o <<" ">> \o Rep("y", 9)
Text19 == Rep("x", 10) \o <<" ">> \o Rep("y", 8)
TextLeaky ==
    <<" ", " ", "[", "i", "m", "a", "g", "e", ":", "c", "]", "\n">>
        \o <<"{", "f", ":", "1", "}", "\n">>
        \o Rep("h", 5) \o <<" ">> \o Rep("w", 5) \o <<" ">> \o Rep("t", 4) \o <<" ">>
        \o Rep("i", 2) \o <<" ">> \o Rep("f", 4) \o <<" ", " ">>
TextShrinks == Rep("x", 16) \o <<"\n", "{", "a", "}">>

\* the final-text responses the model can give
PostResponses ==
    { Decoded(PostObject(JString(Text20))),
      Decoded(PostObject(JString(Text19))),
      Decoded(PostObject(JString(TextLeaky))),
      Decoded(PostObject(JString(TextShrinks))),
      Decoded(PostObject(JString(<<>>))),
      Decoded(PostObject(JNull)),
      Decoded(PostObject(JNumber)),
      Decoded(EmptyObject),
      RawText(<<"{", "t", "}">>, PostObject(JString(Text20))),
      RawText(<<"{", "}">>, EmptyObject),
      RawText(Text20, Invalid),
      RawText(<<"h", "i">>, Invalid),
      RawText(<<"[", "1", "]">>, JArray),
      RawText(<<>>, Invalid),
      NoResponse }

\* the reasons the tier manager gives for a refusal
Reasons == {"daily_limit_reached", "monthly_cap_reached"}

\* the ids the platform gives a published post
TweetIds == {"tweet_1", "tweet_2"}

\* str(e) of what a collaborator raises at a site and the handler around run()
\* turns into the result: a message naming the site, or the empty string of an
\* exception raised without arguments. (The message of an exception that is
\* caught inside run() is logged or dropped; it names the site.)
Messages(site) == {site \o " failed", ""}

-----------------------------------------------------------------------------
(* AutoPostService.run: one invocation. Every action is one collaborator   *)
(* call with its outcome and the code that follows it up to the next call. *)
(* calls and raised are the history of the run: the collaborator calls     *)
(* made, and the exceptions raised with the handler that caught each.      *)

\* the messages run() appends
Msg(role, content) == [role |-> role, content |-> content]
SystemMsg == Msg("system", [text |-> "SYSTEM_PROMPT + get_agent_system_prompt()"])
SeedMsg == Msg("user", [text |-> "Create a Twitter post ... Now create your plan."])
ToolResultMsg == Msg("user", [text |-> "Tool result (generate_image): completed"])
FinalMsg == Msg("user", [text |-> "Now write your final tweet text. Just the tweet."])

\* the mutant of TopLevelHandler that lets the exception escape to the caller
HandlerReraises(e) == [escaped |-> e]

\* the mutant of TopLevelHandler that reports the failure without its message
HandlerDropsMessage(e) ==
    [success |-> FALSE, error |-> "error", duration_seconds |-> "elapsed"]

\* except Exception as e: the result of a run that failed with str(e) = e
TopLevelHandler(e) ==
    [success |-> FALSE, error |-> e, duration_seconds |-> "elapsed"]

\* the mutant of BlockedResult that gives the reason without the prefix
BlockedResultBareReason(reason) ==
    [success |-> FALSE, error |-> reason, tier |-> "tier", usage_percent |-> "usage"]

\* the result of a run the tier manager refused
BlockedResult(reason) ==
    [success |-> FALSE, error |-> "posting_blocked: " \o reason,
     tier |-> "tier", usage_percent |-> "usage"]

\* the mutant of SuccessResult that reports an image whatever image_bytes is
SuccessResultWithImage(id, txt, img) ==
    [success |-> TRUE, tweet_id |-> id, text |-> txt,
     has_image |-> TRUE, duration_seconds |-> "elapsed"]

\* the result of a run that published and saved
SuccessResult(id, txt, img) ==
    [success |-> TRUE, tweet_id |-> id, text |-> txt,
     has_image |-> (img # None), duration_seconds |-> "elapsed"]

\* the mutant of NeedsFallback that replaces only the empty text
NeedsFallbackEmptyOnly(t) == t = <<>>

\* if not post_text or len(post_text) < 20
NeedsFallback(t) == t = <<>> \/ Len(t) < MinPostLen

\* the mutant of AttemptsExhausted that allows one more attempt
AttemptsExhaustedLate(failed) == failed >= MaxAttempts + 1

\* for attempt in range(3): the loop ends after the 3rd failed attempt
AttemptsExhausted(failed) == failed >= MaxAttempts

\* if image_bytes: (None and b"" are falsy)
Truthy(b) == b = Bytes

\* the mutant of LoopPc that never leaves the loop over the plan: past the
\* last step it waits for a step that does not come
LoopPcNeverLeaves(p, i) ==
    IF i > Len(p) THEN "waiting"
    ELSE IF p[i].tool = GenerateImage THEN "tool" ELSE "react"

\* the mutant of LoopPc that leaves the loop over the plan at once
LoopPcSkipsSteps(p, i) == "final"

\* where the loop over the plan goes at step i: to the image tool, to the
\* reaction of a step without a tool call, or past the loop to the final text
LoopPc(p, i) ==
    IF i > Len(p) THEN "final"
    ELSE IF p[i].tool = GenerateImage THEN "tool" ELSE "react"

\* json.loads(raw) inside try/except: [ok |-> TRUE, value |-> ...] or
\* [ok |-> FALSE] when it raises (text that is no JSON, or None)
JsonLoads(raw) ==
    IF raw.kind = "text" /\ raw.parse # Invalid
    THEN [ok |-> TRUE, value |-> raw.parse]
    ELSE [ok |-> FALSE]

\* value.get(key, default): whether the value has a method get at all
HasGet(v) == v.type = "object"

\* an exception raised at a site, with str(e) and the handler that caught
\* it: "inner" for a try/except inside run(), "top" for the one around it
Raise(site, handler, msg) == [site |-> site, handler |-> handler, msg |-> msg]

\* str(e) of the errors Python itself raises in run()
AttributeErrorMsg == "object has no attribute"
TypeErrorMsg == "unhashable type"
JsonErrorMsg == "not JSON"

\* plan_result: the response if it is a mapping, else json.loads of it, else {}
PlanResult(r) ==
    IF r.kind = "dict" THEN r.value
    ELSE IF JsonLoads(r).ok THEN JsonLoads(r).value
    ELSE EmptyObject

\* the exception the decoding of the plan response catches, if any
PlanDecodeErrors(r) ==
    IF r.kind # "dict" /\ ~JsonLoads(r).ok
    THEN <<Raise("json.loads", "inner", JsonErrorMsg)>>
    ELSE <<>>

\* obj.get("post_text", "")
GetPostText(obj) == IF obj.post_text = Absent THEN JString(<<>>) ELSE obj.post_text

\* post_text before it is sanitized: the key post_text of the response or of
\* its JSON decoding, else the raw response (or "" for a falsy one)
PostTextValue(r) ==
    IF r.kind = "dict" THEN GetPostText(r.value)
    ELSE IF JsonLoads(r).ok /\ HasGet(JsonLoads(r).value) THEN GetPostText(JsonLoads(r).value)
    ELSE IF r.kind = "text" THEN JString(r.chars)
    ELSE JString(<<>>)

\* the exception the decoding of the final-text response catches, if any
PostDecodeErrors(r) ==
    IF r.kind = "dict" THEN <<>>
    ELSE IF ~JsonLoads(r).ok THEN <<Raise("json.loads", "inner", JsonErrorMsg)>>
    ELSE IF ~HasGet(JsonLoads(r).value)
    THEN <<Raise("json.loads(...).get", "inner", AttributeErrorMsg)>>
    ELSE <<>>

\* whether sanitize_post_text(value) returns: a str or None goes through,
\* any other truthy value has no splitlines
Sanitizable(value) == value.type \in {"string", "null"}

\* sanitize_post_text(value) for a value it returns on
Sanitized(value) == IF value.type = "null" THEN <<>> ELSE sanitize_post_text(value.chars)

\* the record of a call to llm.chat(messages, schema)
LlmCall(schema, msgs, out) ==
    [op |-> "llm.chat", schema |-> schema, messages |-> msgs, out |-> out]

Returned(v) == [raised |-> FALSE, value |-> v]
Raised == [raised |-> TRUE]

\* an exception reaches `except Exception as e` of run(): the run ends with
\* the result the handler builds. before are the exceptions caught on the way.
Caught(before, site, msg) ==
    /\ raised' = Append(raised \o before, Raise(site, "top", msg))
    /\ result' = TopLevelHandler(msg)
    /\ pc' = "done"

\* the tier manager's verdict, when there is a tier manager. The refusal is
\* built from the reason and from the manager's tier and usage percentage,
\* which are read from the manager (get_usage_percent() -> number).
TierCheck ==
    /\ pc = "start"
    /\ \/ /\ tier_manager = "absent"
          /\ pc' = "posts"
          /\ UNCHANGED <<calls, raised, result>>
       \/ /\ tier_manager = "present"
          /\ \/ \E msg \in Messages("can_post") :
                  /\ calls' = Append(calls, [op |-> "can_post", out |-> Raised])
                  /\ Caught(<<>>, "can_post", msg)
             \/ \E reason \in Reasons :
                  /\ calls' = Append(calls, [op |-> "can_post",
                                             out |-> Returned([can_post |-> TRUE,
                                                               reason |-> reason])])
                  /\ pc' = "posts"
                  /\ UNCHANGED <<raised, result>>
             \/ \E reason \in Reasons :
                  /\ calls' = Append(calls, [op |-> "can_post",
                                             out |-> Returned([can_post |-> FALSE,
                                                               reason |-> reason])])
                  /\ result' = BlockedResult(reason)
                  /\ pc' = "done"
                  /\ UNCHANGED raised
    /\ UNCHANGED <<sanVars, planVars, loopVars, tier_manager, messages, plan, step_i, image_bytes, media_ids,
                   post_text, tweet_id, attempt, slept>>

\* previous_posts = await self.db.get_recent_posts_formatted(limit=50), and
\* the two messages the conversation starts with
GetPosts ==
    /\ pc = "posts"
    /\ \/ /\ calls' = Append(calls, [op |-> "get_recent_posts_formatted",
                                     out |-> Returned("previous_posts")])
          /\ messages' = <<SystemMsg, SeedMsg>>
          /\ pc' = "plan"
          /\ UNCHANGED <<raised, result>>
       \/ \E msg \in Messages("get_recent_posts_formatted") :
            /\ calls' = Append(calls, [op |-> "get_recent_posts_formatted", out |-> Raised])
            /\ Caught(<<>>, "get_recent_posts_formatted", msg)
            /\ UNCHANGED messages
    /\ UNCHANGED <<sanVars, planVars, loopVars, tier_manager, plan, step_i, image_bytes, media_ids,
                   post_text, tweet_id, attempt, slept>>

\* the plan phase: llm.chat with PLAN_SCHEMA, decoding of the response,
\* _sanitize_plan, and the assistant message with the decoded response
PlanPhase ==
    /\ pc = "plan"
    /\ \/ \E msg \in Messages("llm.chat") :
            /\ calls' = Append(calls, LlmCall("PLAN_SCHEMA", messages, Raised))
            /\ Caught(<<>>, "llm.chat", msg)
            /\ UNCHANGED <<messages, plan, step_i>>
       \/ \E r \in PlanResponses :
            LET plan_result == PlanResult(r)
                inner == PlanDecodeErrors(r)
                raw == IF plan_result.plan = Absent THEN RawList(<<>>) ELSE plan_result.plan
                valid == sanitize_plan(raw)
            IN  /\ calls' = Append(calls, LlmCall("PLAN_SCHEMA", messages, Returned(r)))
                /\ IF ~HasGet(plan_result)
                   THEN /\ Caught(inner, "plan_result.get", AttributeErrorMsg)
                        /\ UNCHANGED <<messages, plan, step_i>>
                   ELSE IF valid.raised
                   THEN /\ Caught(inner, "tool_name not in TOOLS", TypeErrorMsg)
                        /\ UNCHANGED <<messages, plan, step_i>>
                   ELSE /\ messages' = Append(messages, Msg("assistant", [json |-> plan_result]))
                        /\ plan' = valid.steps
                        /\ step_i' = 1
                        /\ pc' = LoopPc(valid.steps, 1)
                        /\ raised' = raised \o inner
                        /\ UNCHANGED result
    /\ UNCHANGED <<sanVars, planVars, loopVars, tier_manager, image_bytes, media_ids, post_text,
                   tweet_id, attempt, slept>>

\* a generate_image step: the tool call inside try/except
StepTool ==
    /\ pc = "tool"
    /\ LET params == plan[step_i].params
       IN  \/ /\ params = ParamsNotMapping
              /\ image_bytes' = None
              /\ raised' = Append(raised, Raise("params.get", "inner", AttributeErrorMsg))
              /\ UNCHANGED <<calls, messages>>
           \/ /\ params # ParamsNotMapping
              /\ \/ \E b \in {Bytes, EmptyBytes, None} :
                      /\ calls' = Append(calls, [op |-> "generate_image",
                                                 prompt |-> GetPrompt(params),
                                                 out |-> Returned(b)])
                      /\ image_bytes' = b
                      /\ messages' = Append(messages, ToolResultMsg)
                      /\ UNCHANGED raised
                 \/ /\ calls' = Append(calls, [op |-> "generate_image",
                                               prompt |-> GetPrompt(params),
                                               out |-> Raised])
                    /\ image_bytes' = None
                    /\ raised' = Append(raised, Raise("generate_image", "inner", "generate_image failed"))
                    /\ UNCHANGED messages
    /\ pc' = "react"
    /\ UNCHANGED <<sanVars, planVars, loopVars, tier_manager, plan, step_i, media_ids, post_text, tweet_id,
                   attempt, slept, result>>

\* the reaction to a step: llm.chat with TOOL_REACTION_SCHEMA and the
\* assistant message with reaction.get("thinking", "")
React ==
    /\ pc = "react"
    /\ \/ \E msg \in Messages("llm.chat") :
            /\ calls' = Append(calls, LlmCall("TOOL_REACTION_SCHEMA", messages, Raised))
            /\ Caught(<<>>, "llm.chat", msg)
            /\ UNCHANGED <<messages, step_i>>
       \/ \E r \in ReactionResponses :
            /\ calls' = Append(calls, LlmCall("TOOL_REACTION_SCHEMA", messages, Returned(r)))
            /\ IF r.kind = "dict"
               THEN /\ messages' =
                          Append(messages,
                                 Msg("assistant",
                                     [chars |-> IF r.value.thinking = Absent THEN <<>>
                                                ELSE r.value.thinking.chars]))
                    /\ step_i' = step_i + 1
                    /\ pc' = LoopPc(plan, step_i + 1)
                    /\ UNCHANGED <<raised, result>>
               ELSE /\ Caught(<<>>, "reaction.get", AttributeErrorMsg)
                    /\ UNCHANGED <<messages, step_i>>
    /\ UNCHANGED <<sanVars, planVars, loopVars, tier_manager, plan, image_bytes, media_ids, post_text, tweet_id,
                   attempt, slept>>

\* the final text: the instruction message, llm.chat with POST_TEXT_SCHEMA,
\* decoding of the response, sanitize_post_text and the fallback for a text
\* that is empty or too short
FinalText ==
    /\ pc = "final"
    /\ messages' = Append(messages, FinalMsg)
    /\ \/ \E msg \in Messages("llm.chat") :
            /\ calls' = Append(calls, LlmCall("POST_TEXT_SCHEMA", messages', Raised))
            /\ Caught(<<>>, "llm.chat", msg)
            /\ UNCHANGED <<post_text, media_ids, tweet_id, attempt>>
       \/ \E r \in PostResponses, fallback \in Range(FALLBACK_TWEETS) :
            LET value == PostTextValue(r)
                inner == PostDecodeErrors(r)
                cleaned == Sanitized(value)
            IN  /\ calls' = Append(calls, LlmCall("POST_TEXT_SCHEMA", messages', Returned(r)))
                /\ IF ~Sanitizable(value)
                   THEN /\ Caught(inner, "text.splitlines", AttributeErrorMsg)
                        /\ UNCHANGED <<post_text, media_ids, tweet_id, attempt>>
                   ELSE /\ post_text' = IF NeedsFallback(cleaned) THEN fallback ELSE cleaned
                        /\ media_ids' = None
                        /\ tweet_id' = None
                        /\ attempt' = 0
                        /\ pc' = IF Truthy(image_bytes) THEN "upload" ELSE "post"
                        /\ raised' = raised \o inner
                        /\ UNCHANGED result
    /\ UNCHANGED <<sanVars, planVars, loopVars, tier_manager, plan, step_i, image_bytes, slept>>

\* media_id = await self.twitter.upload_media(image_bytes), inside try/except
Upload ==
    /\ pc = "upload"
    /\ \/ /\ calls' = Append(calls, [op |-> "upload_media", out |-> Returned("media_id")])
          /\ media_ids' = "[media_id]"
          /\ UNCHANGED <<image_bytes, raised>>
       \/ /\ calls' = Append(calls, [op |-> "upload_media", out |-> Raised])
          /\ image_bytes' = None
          /\ raised' = Append(raised, Raise("upload_media", "inner", "upload_media failed"))
          /\ UNCHANGED media_ids
    /\ pc' = "post"
    /\ UNCHANGED <<sanVars, planVars, loopVars, tier_manager, messages, plan, step_i, post_text, tweet_id,
                   attempt, slept, result>>

\* the record of a call to twitter.post
PostCall(site, txt, media, out) ==
    [op |-> "post", site |-> site, text |-> txt, media_ids |-> media, out |-> out]

\* one attempt of the loop `for attempt in range(3)`: the post is published
\* and the loop left, or the failure is logged and time.sleep(5) waits
Post ==
    /\ pc = "post"
    /\ \/ \E id \in TweetIds :
            /\ calls' = Append(calls, PostCall("attempt", post_text, media_ids, Returned(id)))
            /\ tweet_id' = id
            /\ pc' = "save"
            /\ UNCHANGED <<attempt, slept, raised>>
       \/ /\ calls' = Append(calls, PostCall("attempt", post_text, media_ids, Raised))
          /\ raised' = Append(raised, Raise("post (attempt)", "inner", "post failed"))
          /\ slept' = slept + SleepSeconds
          /\ attempt' = attempt + 1
          /\ pc' = IF AttemptsExhausted(attempt + 1) THEN "fallback" ELSE "post"
          /\ UNCHANGED tweet_id
    /\ UNCHANGED <<sanVars, planVars, loopVars, tier_manager, messages, plan, step_i, image_bytes, media_ids,
                   post_text, result>>

\* if not tweet_data: the fallback is published, without media and without
\* try/except
Fallback ==
    /\ pc = "fallback"
    /\ \E fallback \in Range(FALLBACK_TWEETS) :
         \/ \E id \in TweetIds :
              /\ calls' = Append(calls, PostCall("fallback", fallback, None, Returned(id)))
              /\ tweet_id' = id
              /\ pc' = "save"
              /\ UNCHANGED <<raised, result>>
         \/ \E msg \in Messages("post") :
              /\ calls' = Append(calls, PostCall("fallback", fallback, None, Raised))
              /\ Caught(<<>>, "post (fallback)", msg)
              /\ UNCHANGED tweet_id
    /\ UNCHANGED <<sanVars, planVars, loopVars, tier_manager, messages, plan, step_i, image_bytes, media_ids,
                   post_text, attempt, slept>>

\* the mutant of SaveCall that stores the record without the platform id
SaveCallWithoutId(txt, id, img, out) ==
    [op |-> "save_post", text |-> txt, tweet_id |-> None, has_image |-> (img # None),
     out |-> out]

\* the record of a call to db.save_post(post_text, tweet_data["id"],
\* image_bytes is not None)
SaveCall(txt, id, img, out) ==
    [op |-> "save_post", text |-> txt, tweet_id |-> id, has_image |-> (img # None),
     out |-> out]

\* await self.db.save_post(post_text, tweet_data["id"], image_bytes is not None)
\* and the result of the run
Save ==
    /\ pc = "save"
    /\ LET call(out) == SaveCall(post_text, tweet_id, image_bytes, out)
       IN  \/ /\ calls' = Append(calls, call(Returned(None)))
              /\ result' = SuccessResult(tweet_id, post_text, image_bytes)
              /\ pc' = "done"
              /\ UNCHANGED raised
           \/ \E msg \in Messages("save_post") :
                /\ calls' = Append(calls, call(Raised))
                /\ Caught(<<>>, "save_post", msg)
    /\ UNCHANGED <<sanVars, planVars, loopVars, tier_manager, messages, plan, step_i, image_bytes, media_ids,
                   post_text, tweet_id, attempt, slept>>

-----------------------------------------------------------------------------
(* The specifications.                                                     *)

NoResult == [pending |-> TRUE]

\* the sanitizer and the plan validator at rest
SanitizeIdle == text = <<>> /\ clean = <<>> /\ reclean = <<>> /\ sanStage = 0
PlanIdle == rawPlan = NotAList /\ planOut = [raised |-> FALSE, steps |-> <<>>] /\ planStage = 0

\* the state of a run before run() is entered
RunFresh ==
    /\ messages = <<>>
    /\ plan = <<>>
    /\ step_i = 0
    /\ image_bytes = None
    /\ media_ids = None
    /\ post_text = <<>>
    /\ tweet_id = None
    /\ attempt = 0
    /\ slept = 0
    /\ result = NoResult
    /\ calls = <<>>
    /\ raised = <<>>

RunIdle == pc = "idle" /\ tier_manager = "absent" /\ RunFresh

\* the invocations that share one event loop
Tasks == {1, 2}

\* the event loop with no invocation of run() scheduled on it
LoopIdle ==
    /\ task_pc = [t \in Tasks |-> "idle"]
    /\ task_steps = [t \in Tasks |-> 0]
    /\ task_image = [t \in Tasks |-> FALSE]
    /\ task_attempt = [t \in Tasks |-> 0]
    /\ sleeper = 0
    /\ sleep_left = 0

(* Spec: one invocation of run(), with or without a tier manager.          *)

Init ==
    /\ pc = "start"
    /\ tier_manager \in {"absent", "present"}
    /\ RunFresh
    /\ SanitizeIdle
    /\ PlanIdle
    /\ LoopIdle

Next ==
    \/ TierCheck
    \/ GetPosts
    \/ PlanPhase
    \/ StepTool
    \/ React
    \/ FinalText
    \/ Upload
    \/ Post
    \/ Fallback
    \/ Save

Spec == Init /\ [][Next]_vars

(* SpecSanitize: sanitize_post_text applied to every input text of the     *)
(* bounded set, and applied again to its own output.                       *)

\* the pieces the input texts are concatenated from
Pieces ==
    { <<"[", "i", "m", "a", "g", "e">>,
      <<"[", "I", "m", "A", "G", "E">>,
      <<"[">>,
      <<"i", "m", "a", "g", "e">>,
      <<"{">>,
      <<"}">>,
      <<"x">>,
      <<" ">>,
      <<"\t">>,
      <<"\n">>,
      <<"\r">> }

RECURSIVE TextsUpTo(_)
\* the concatenations of at most n pieces
TextsUpTo(n) ==
    IF n = 0 THEN {<<>>}
    ELSE LET shorter == TextsUpTo(n - 1)
         IN  shorter \cup {t \o p : t \in shorter, p \in Pieces}

InitSanitize ==
    /\ text \in TextsUpTo(MaxPieces)
    /\ clean = <<>>
    /\ reclean = <<>>
    /\ sanStage = 0
    /\ PlanIdle
    /\ RunIdle
    /\ LoopIdle

\* sanitize_post_text(text)
SanitizeOnce ==
    /\ sanStage = 0
    /\ clean' = sanitize_post_text(text)
    /\ sanStage' = 1
    /\ UNCHANGED <<text, reclean, planVars, runVars, loopVars>>

\* sanitize_post_text applied to its own output
SanitizeAgain ==
    /\ sanStage = 1
    /\ reclean' = sanitize_post_text(clean)
    /\ sanStage' = 2
    /\ UNCHANGED <<text, clean, planVars, runVars, loopVars>>

NextSanitize == SanitizeOnce \/ SanitizeAgain

SpecSanitize == InitSanitize /\ [][NextSanitize]_vars

(* SpecPlan: _sanitize_plan applied to every raw plan of the bounded set.  *)

\* the entries the raw plans are lists of
Entries ==
    { NotADict,
      Step(GenerateImage, PromptX), Step(GenerateImage, PromptY),
      Step(GenerateImage, NoParams),
      Step("web_search", PromptX), Step("web_search", PromptY),
      Step("unknown_tool", NoParams),
      Step(NoTool, PromptX),
      Step(UnhashableTool, NoParams) }

RECURSIVE ListsUpTo(_)
\* the lists of at most n entries
ListsUpTo(n) ==
    IF n = 0 THEN {<<>>}
    ELSE LET shorter == ListsUpTo(n - 1)
         IN  shorter \cup {Append(l, e) : l \in shorter, e \in Entries}

\* the raw plans: the lists, and a value that is no list
RawPlans == {RawList(l) : l \in ListsUpTo(MaxPlanLen)} \cup {NotAList}

InitPlan ==
    /\ rawPlan \in RawPlans
    /\ planOut = [raised |-> FALSE, steps |-> <<>>]
    /\ planStage = 0
    /\ SanitizeIdle
    /\ RunIdle
    /\ LoopIdle

\* plan = self._sanitize_plan(rawPlan)
ValidatePlan ==
    /\ planStage = 0
    /\ planOut' = sanitize_plan(rawPlan)
    /\ planStage' = 1
    /\ UNCHANGED <<rawPlan, sanVars, runVars, loopVars>>

NextPlan == ValidatePlan

SpecPlan == InitPlan /\ [][NextPlan]_vars

-----------------------------------------------------------------------------
(* Claims about _sanitize_plan (SpecPlan).                                 *)

\* the entries of a raw list that are mappings naming a tool of the registry
KnownEntries(items) ==
    SelectSeq(items, LAMBDA e : e.kind = "dict" /\ e.tool \in TOOLS)

\* whether some entry of a raw list names its tool by a value `in` cannot hash
HasUnhashable(items) ==
    \E i \in 1..Len(items) : items[i].kind = "dict" /\ items[i].tool = UnhashableTool

\* C7: the output of _sanitize_plan has at most 3 steps and at most one
\* generate_image step, and a generate_image step in it is its last element.
C7_PlanShape ==
    (planStage = 1 /\ ~planOut.raised) =>
        LET p == planOut.steps
        IN  /\ Len(p) <= MaxSteps
            /\ Cardinality({i \in 1..Len(p) : p[i].tool = GenerateImage}) <= 1
            /\ \A i \in 1..Len(p) : p[i].tool = GenerateImage => i = Len(p)

\* C7 witness: a raw plan that opens with an image step and holds a second one
\* was validated to 3 steps.
C7_Witness ==
    /\ planStage = 1
    /\ rawPlan.kind = "list"
    /\ Len(rawPlan.items) >= 2
    /\ rawPlan.items[1].kind = "dict"
    /\ rawPlan.items[1].tool = GenerateImage
    /\ Cardinality({i \in 1..Len(rawPlan.items) :
                        rawPlan.items[i].kind = "dict"
                        /\ rawPlan.items[i].tool = GenerateImage}) >= 2
    /\ Len(planOut.steps) = MaxSteps

-----------------------------------------------------------------------------
(* Claims about run() (Spec).                                              *)

\* the calls to twitter.post: all, those of the retry loop, the fallback's
PostCalls == SelectSeq(calls, LAMBDA c : c.op = "post")
AttemptCalls == SelectSeq(PostCalls, LAMBDA c : c.site = "attempt")
FallbackCalls == SelectSeq(PostCalls, LAMBDA c : c.site = "fallback")

\* every attempt of the retry loop was made and failed
AllAttemptsFailed ==
    /\ Len(AttemptCalls) = MaxAttempts
    /\ \A i \in 1..Len(AttemptCalls) : AttemptCalls[i].out.raised

\* the final-text responses the model returned
FinalResponses ==
    SelectSeq(calls, LAMBDA c : c.op = "llm.chat" /\ c.schema = "POST_TEXT_SCHEMA"
                                /\ ~c.out.raised)

\* the refusals of the tier manager
Refusals ==
    SelectSeq(calls, LAMBDA c : c.op = "can_post" /\ ~c.out.raised
                                /\ ~c.out.value.can_post)

\* the sites whose exceptions a try/except inside run() catches
LocalSites ==
    {"json.loads", "json.loads(...).get", "params.get", "generate_image",
     "upload_media", "post (attempt)"}

\* the calls that leave the process, and the storage calls
OutsideOps ==
    {"llm.chat", "generate_image", "upload_media", "post", "save_post",
     "get_recent_posts_formatted"}

\* the exceptions the collaborators raised
CollaboratorErrors ==
    SelectSeq(raised, LAMBDA e : e.site \in {"can_post", "get_recent_posts_formatted",
                                             "llm.chat", "generate_image", "upload_media",
                                             "post (attempt)", "post (fallback)",
                                             "save_post"})

\* C1 as stated: run returns a result with a boolean success, and whenever a
\* collaborator raised an exception anywhere in the run the result has
\* success=false and its error is the message of an exception raised in the run.
C1_AnyExceptionFailsRun ==
    pc = "done" =>
        /\ "success" \in DOMAIN result
        /\ result.success \in BOOLEAN
        /\ CollaboratorErrors # <<>> =>
               /\ result.success = FALSE
               /\ \E i \in 1..Len(raised) : result.error = raised[i].msg

\* C1 amended: run never raises to its caller: it returns a result with a
\* boolean success for every combination of outcomes of the collaborators. An
\* exception that a try/except inside run catches (the JSON decoding of the
\* plan and final-text responses, the image tool step, the media upload, the 3
\* attempts to publish the candidate text) does not end the run; every other
\* exception ends it with success=false and that exception's message as error.
C1_UncaughtExceptionFailsRun ==
    /\ (pc = "done") <=> (result # NoResult)
    /\ \A i \in 1..Len(raised) : (raised[i].handler = "inner") <=> (raised[i].site \in LocalSites)
    /\ \A i \in 1..Len(raised) : raised[i].handler = "top" => (i = Len(raised) /\ pc = "done")
    /\ pc = "done" =>
           /\ "success" \in DOMAIN result
           /\ result.success \in BOOLEAN
           /\ \A i \in 1..Len(raised) :
                  raised[i].handler = "top" =>
                      /\ result.success = FALSE
                      /\ result.error = raised[i].msg
           /\ (raised # <<>> /\ raised[Len(raised)].handler = "top") \/ Refusals # <<>>
                  \/ result.success = TRUE

\* C1 witness: the image tool raised, the run went on, the storage write raised
\* and the run returned the storage write's message.
C1_Witness ==
    /\ pc = "done"
    /\ \E i \in 1..Len(raised) : raised[i].site = "generate_image"
    /\ raised[Len(raised)].site = "save_post"
    /\ result.success = FALSE
    /\ result.error = "save_post failed"

\* C2: the candidate text is submitted to the publish call at most 3 times and
\* no publish call follows one that succeeded; the fallback publish is made at
\* most once, after all 3 attempts of the candidate text failed, and is made
\* when they did. A run makes at most 4 publish calls, at most one succeeds.
C2_PublishCalls ==
    /\ Len(AttemptCalls) <= MaxAttempts
    /\ \A i \in 1..Len(AttemptCalls) : AttemptCalls[i].text = post_text
    /\ \A i \in 1..(Len(PostCalls) - 1) : PostCalls[i].out.raised
    /\ Len(FallbackCalls) <= 1
    /\ FallbackCalls # <<>> =>
           /\ AllAttemptsFailed
           /\ PostCalls[Len(PostCalls)].site = "fallback"
    /\ (AllAttemptsFailed /\ pc \in {"save", "done"}) => Len(FallbackCalls) = 1
    /\ Len(PostCalls) <= MaxAttempts + 1
    /\ Cardinality({i \in 1..Len(PostCalls) : ~PostCalls[i].out.raised}) <= 1

\* C2 witness: a run made 4 publish calls, of which the last one, the
\* fallback, succeeded.
C2_Witness ==
    /\ pc = "done"
    /\ Len(PostCalls) = MaxAttempts + 1
    /\ ~PostCalls[Len(PostCalls)].out.raised
    /\ result.success = TRUE

\* C3: if the publish call fails on all 3 attempts of the candidate text and
\* succeeds on the fallback call, run returns success=true.
C3_FallbackSuccessReturnsSuccess ==
    (pc = "done" /\ AllAttemptsFailed /\ FallbackCalls # <<>>
        /\ ~FallbackCalls[1].out.raised)
    => result.success = TRUE

\* C4 as stated: if the publish call fails on all 3 attempts and on the
\* fallback, run returns success=false with an error message that is not empty.
C4_AllPublishFailedNonEmptyError ==
    (pc = "done" /\ AllAttemptsFailed /\ FallbackCalls # <<>>
        /\ FallbackCalls[1].out.raised)
    => (result.success = FALSE /\ result.error # "")

\* C4 amended: if the publish call fails on all 3 attempts and on the
\* fallback, run returns success=false and its error is str(e) of the exception
\* the fallback call raised, which is empty when that exception has no message;
\* nothing is saved.
C4_AllPublishFailedFallbackError ==
    (pc = "done" /\ AllAttemptsFailed /\ FallbackCalls # <<>>
        /\ FallbackCalls[1].out.raised)
    => /\ result.success = FALSE
       /\ raised[Len(raised)].site = "post (fallback)"
       /\ result.error = raised[Len(raised)].msg
       /\ \A i \in 1..Len(calls) : calls[i].op # "save_post"

\* C4 witness: all 4 publish calls failed and the run returned the message of
\* the fallback call's exception.
C4_Witness ==
    /\ pc = "done"
    /\ AllAttemptsFailed
    /\ FallbackCalls # <<>>
    /\ FallbackCalls[1].out.raised
    /\ result.error = "post failed"

\* C5: if the candidate text of a final-text response sanitizes to fewer than
\* 20 characters (the empty text included), every text passed to a publish call
\* is a member of FALLBACK_TWEETS; otherwise the sanitized text is what the
\* attempts of the retry loop submit.
C5_ShortTextPublishesFallback ==
    \A i \in 1..Len(FinalResponses) :
        LET value == PostTextValue(FinalResponses[i].out.value)
        IN  IF ~Sanitizable(value) THEN PostCalls = <<>>
            ELSE \A j \in 1..Len(PostCalls) :
                     IF Len(Sanitized(value)) < MinPostLen
                     THEN PostCalls[j].text \in Range(FALLBACK_TWEETS)
                     ELSE PostCalls[j].site = "attempt" =>
                              PostCalls[j].text = Sanitized(value)

\* C5 witness: a candidate text of 20 characters that sanitizes to 16 reached
\* the publish call, which got a fallback text.
C5_Witness ==
    /\ FinalResponses # <<>>
    /\ LET value == PostTextValue(FinalResponses[1].out.value)
       IN  /\ value.type = "string"
           /\ Len(value.chars) >= MinPostLen
           /\ Sanitized(value) # <<>>
           /\ Len(Sanitized(value)) < MinPostLen
    /\ PostCalls # <<>>
    /\ PostCalls[1].text \in Range(FALLBACK_TWEETS)

\* C6: when the tier manager's can_post returns (false, reason), run returns
\* at once with success=false and the error "posting_blocked: " + reason, and
\* has called neither the LLM, the image tool, the media upload, the publish
\* call nor the storage.
C6_BlockedRun ==
    Refusals # <<>> =>
        /\ pc = "done"
        /\ Len(calls) = 1
        /\ result.success = FALSE
        /\ result.error = "posting_blocked: " \o Refusals[1].out.value.reason
        /\ \A i \in 1..Len(calls) : calls[i].op \notin OutsideOps
        /\ messages = <<>>

\* C6 witness: the tier manager refused with daily_limit_reached and the run
\* returned posting_blocked: daily_limit_reached.
C6_Witness ==
    /\ tier_manager = "present"
    /\ Refusals # <<>>
    /\ Refusals[1].out.value.reason = "daily_limit_reached"
    /\ result.error = "posting_blocked: daily_limit_reached"

-----------------------------------------------------------------------------
(* Claims about sanitize_post_text (SpecSanitize).                         *)

HasBrace(s) == \E i \in 1..Len(s) : s[i] \in {"{", "}"}

\* C9 as stated: the output of sanitize_post_text contains no line that starts
\* with the image marker (in any letter case) and no line that contains a brace
\* character.
C9_NoMarkerNoBraceAnywhere ==
    sanStage >= 1 =>
        \A i \in 1..Len(SplitLines(clean)) :
            LET l == SplitLines(clean)[i]
            IN  ~StartsWith(Lower(l), ImageMarker) /\ ~HasBrace(l)

\* C9 amended: the output of sanitize_post_text is a single line (it holds no
\* line break) that does not start with the image marker in any letter case,
\* does not start with "{" and does not end with "}"; a brace anywhere else in
\* a kept line stays in the output.
C9_NoMarkerNoBraceAtEnds ==
    sanStage >= 1 =>
        /\ \A i \in 1..Len(clean) : clean[i] \notin LineBreaks
        /\ ~StartsWith(Lower(clean), ImageMarker)
        /\ ~StartsWith(clean, <<"{">>)
        /\ ~EndsWith(clean, <<"}">>)

\* C9 witness: an input with a marker line in capitals has been sanitized,
\* and a brace inside a kept line is still in the output.
C9_Witness ==
    /\ sanStage >= 1
    /\ \E i \in 1..Len(SplitLines(text)) :
           StartsWith(Lower(Strip(SplitLines(text)[i])), ImageMarker)
           /\ ~StartsWith(Strip(SplitLines(text)[i]), ImageMarker)
    /\ HasBrace(clean)

\* C10: sanitize_post_text is idempotent: sanitizing its output changes nothing.
C10_Idempotent == sanStage = 2 => reclean = clean

\* C10 witness: two kept lines "[" and "image" were joined onto one line, which
\* was sanitized again.
C10_Witness ==
    /\ sanStage = 2
    /\ clean = <<"[", " ", "i", "m", "a", "g", "e">>
    /\ Len(SplitLines(text)) >= 2

-----------------------------------------------------------------------------
(* Claims about the tool step, the decoding of the responses and the       *)
(* result of run() (Spec).                                                 *)

\* the calls to the image tool, and whether a call produced no image
ImageCalls == SelectSeq(calls, LAMBDA c : c.op = "generate_image")
NoImage(c) == c.out.raised \/ c.out.value = None

\* the calls to llm.chat, and those to the storage write
LlmCalls == SelectSeq(calls, LAMBDA c : c.op = "llm.chat")
SaveCalls == SelectSeq(calls, LAMBDA c : c.op = "save_post")

\* C11: whenever the image tool call of a plan step produces no image, by
\* raising or by returning None, no tool-result message is appended to the
\* conversation, the image is absent for the rest of the run (no media upload
\* is attempted), and the run continues with the reaction to the step.
C11_NoImageNoToolResult ==
    \A i \in 1..Len(ImageCalls) :
        NoImage(ImageCalls[i]) =>
            /\ \A k \in 1..Len(messages) : messages[k] # ToolResultMsg
            /\ image_bytes = None
            /\ \A k \in 1..Len(calls) : calls[k].op # "upload_media"
            /\ calls[Len(calls)].op = "generate_image" => pc = "react"

\* C12: for every response the model returns in the plan phase and in the
\* final-text phase the run does not abort: after a plan response the run is
\* in the loop over the plan or at the final text, with the empty plan when the
\* response carried no list of steps, and after a final-text response the run
\* is at the media upload or at the publish loop.
C12_MalformedResponsesNeverAbort ==
    (calls # <<>> /\ calls[Len(calls)].op = "llm.chat" /\ ~calls[Len(calls)].out.raised) =>
        LET c == calls[Len(calls)]
        IN  /\ c.schema = "PLAN_SCHEMA" =>
                  /\ pc \in {"tool", "react", "final"}
                  /\ (c.out.value.kind # "dict" /\ ~HasGet(PlanResult(c.out.value)))
                         => plan = <<>>
            /\ c.schema = "POST_TEXT_SCHEMA" => pc \in {"upload", "post"}

\* C13: every result run returns, on every path (published, failed with a
\* captured error, blocked by the tier manager), has the fields success and
\* duration_seconds.
C13_ResultHasDuration ==
    pc = "done" => {"success", "duration_seconds"} \subseteq DOMAIN result

\* the publish calls that succeeded
SuccessfulPosts == SelectSeq(PostCalls, LAMBDA c : ~c.out.raised)

\* C14: save_post is called exactly once after a publish call has succeeded
\* (of the candidate text or of the fallback), with the platform id that this
\* publish call returned, and it is the call the run makes next; save_post is
\* never called in a run in which no publish call succeeded.
C14_SavedOncePerPublish ==
    /\ Len(SaveCalls) <= 1
    /\ SuccessfulPosts = <<>> => SaveCalls = <<>>
    /\ SaveCalls # <<>> =>
           /\ calls[Len(calls)] = SaveCalls[1]
           /\ calls[Len(calls) - 1].op = "post"
           /\ ~calls[Len(calls) - 1].out.raised
           /\ SaveCalls[1].tweet_id = calls[Len(calls) - 1].out.value
    /\ (pc = "done" /\ SuccessfulPosts # <<>>) => Len(SaveCalls) = 1

\* C14 witness: the 3 attempts failed, the fallback was published as tweet_2
\* and the run saved a record with that id.
C14_Witness ==
    /\ pc = "done"
    /\ AllAttemptsFailed
    /\ Len(SuccessfulPosts) = 1
    /\ SuccessfulPosts[1].site = "fallback"
    /\ SuccessfulPosts[1].out.value = "tweet_2"
    /\ Len(SaveCalls) = 1
    /\ SaveCalls[1].tweet_id = "tweet_2"

-----------------------------------------------------------------------------
(* Claims about the conversation of run() (Spec).                          *)

\* a is a prefix of b
IsPrefix(a, b) == Len(a) <= Len(b) /\ SubSeq(b, 1, Len(a)) = a

\* the position of a phase in the order plan, reactions, final text
PhaseRank(schema) ==
    CASE schema = "PLAN_SCHEMA" -> 1
      [] schema = "TOOL_REACTION_SCHEMA" -> 2
      [] schema = "POST_TEXT_SCHEMA" -> 3

\* the reaction calls, and the assistant message a phase appends for the
\* response r of its call
ReactionCalls == SelectSeq(LlmCalls, LAMBDA c : c.schema = "TOOL_REACTION_SCHEMA")
PhaseMessage(schema, r) ==
    IF schema = "PLAN_SCHEMA"
    THEN Msg("assistant", [json |-> PlanResult(r)])
    ELSE Msg("assistant", [chars |-> IF r.value.thinking = Absent THEN <<>>
                                     ELSE r.value.thinking.chars])

\* the state part of C16, over the calls to llm.chat made so far
OrderedPhases ==
    /\ \A j \in 1..Len(LlmCalls) :
           /\ (j = 1) <=> (LlmCalls[j].schema = "PLAN_SCHEMA")
           /\ LlmCalls[j].schema = "POST_TEXT_SCHEMA" =>
                  /\ j = Len(LlmCalls)
                  /\ Len(ReactionCalls) = Len(plan)
                  /\ LlmCalls[j].messages[Len(LlmCalls[j].messages)] = FinalMsg
           /\ IsPrefix(LlmCalls[j].messages, messages)
    /\ \A j \in 1..(Len(LlmCalls) - 1) :
           LET prev == LlmCalls[j]
               next == LlmCalls[j + 1]
           IN  /\ PhaseRank(prev.schema) <= PhaseRank(next.schema)
               /\ ~prev.out.raised
               /\ IsPrefix(prev.messages, next.messages)
               /\ Len(next.messages) > Len(prev.messages)
               /\ next.messages[Len(prev.messages) + 1]
                      = PhaseMessage(prev.schema, prev.out.value)
    /\ Len(ReactionCalls) <= Len(plan)
    /\ pc \in {"tool", "react"} => step_i = Len(ReactionCalls) + 1

\* C16: within one run the message history is append-only and the phases are
\* strictly ordered: the history passed to each call of llm.chat extends the
\* history passed to the previous one as a prefix, the calls are made in the
\* order plan, one reaction per validated step in plan order, final text, and
\* each phase's message is in the history before the next call is made.
C16_AppendOnlyOrderedPhases ==
    /\ []OrderedPhases
    /\ [][IsPrefix(messages, messages')]_vars

\* C16 witness: a run with a plan of 2 steps, the image step last, has made
\* its 4 calls to llm.chat, with the tool-result message in the history.
C16_Witness ==
    /\ Len(plan) = 2
    /\ plan[2].tool = GenerateImage
    /\ Len(LlmCalls) = 4
    /\ Len(ReactionCalls) = 2
    /\ LlmCalls[4].schema = "POST_TEXT_SCHEMA"
    /\ \E k \in 1..Len(messages) : messages[k] = ToolResultMsg
    /\ pc = "post"

-----------------------------------------------------------------------------
(* Claims about the media upload of run() (Spec).                          *)

\* the calls to twitter.upload_media, and whether one of them raised
UploadCalls == SelectSeq(calls, LAMBDA c : c.op = "upload_media")
UploadFailed == \E i \in 1..Len(UploadCalls) : UploadCalls[i].out.raised

\* C17: media upload is best-effort: if upload_media raises, the run goes on
\* to publish the text, the publish calls carry no media ids, the saved record
\* and the result report has_image=false, and the exception of the upload is
\* never the one that ends the run.
C17_UploadBestEffort ==
    UploadFailed =>
        /\ calls[Len(calls)].op = "upload_media" => pc = "post"
        /\ image_bytes = None
        /\ media_ids = None
        /\ \A i \in 1..Len(PostCalls) : PostCalls[i].media_ids = None
        /\ \A i \in 1..Len(SaveCalls) : SaveCalls[i].has_image = FALSE
        /\ \A i \in 1..Len(raised) :
               raised[i].site = "upload_media" => raised[i].handler = "inner"
        /\ pc = "done" =>
               IF result.success
               THEN result.has_image = FALSE
               ELSE /\ raised[Len(raised)].handler = "top"
                    /\ raised[Len(raised)].site \in {"post (fallback)", "save_post"}
                    /\ result.error = raised[Len(raised)].msg

\* C17 witness: the image tool returned bytes, upload_media raised, the text
\* was published without media and the run returned success with has_image=false.
C17_Witness ==
    /\ pc = "done"
    /\ UploadFailed
    /\ \E i \in 1..Len(ImageCalls) : ~ImageCalls[i].out.raised /\ ImageCalls[i].out.value = Bytes
    /\ Len(SuccessfulPosts) = 1
    /\ SuccessfulPosts[1].media_ids = None
    /\ Len(SaveCalls) = 1
    /\ SaveCalls[1].has_image = FALSE
    /\ result.success = TRUE
    /\ result.has_image = FALSE

\* the run has reached the publish phase
ReachedPublish == pc \in {"upload", "post", "fallback", "save"} \/ PostCalls # <<>>

\* C20: for every step of the validated plan and whatever shape the reaction
\* response has (mapping with the reasoning text, mapping without it, raw
\* text), one reaction call is issued after the tool execution of the step and
\* one assistant message is appended for it, the empty string when the
\* reasoning text is absent; a run that reaches the publish phase has issued
\* 2 + len(plan) calls to llm.chat, at most 5.
C20_OneReactionPerStep ==
    /\ \A j \in 1..Len(ReactionCalls) :
           ~ReactionCalls[j].out.raised =>
               LET r == ReactionCalls[j].out.value
                   k == Len(ReactionCalls[j].messages) + 1
               IN  /\ Len(messages) >= k
                   /\ messages[k].role = "assistant"
                   /\ (r.kind # "dict" \/ r.value.thinking = Absent)
                          => messages[k].content = [chars |-> <<>>]
    /\ pc = "react" => calls[Len(calls)].op \in {"llm.chat", "generate_image"}
    /\ ReachedPublish =>
           /\ Len(ReactionCalls) = Len(plan)
           /\ Len(LlmCalls) = 2 + Len(plan)
           /\ Len(LlmCalls) <= 2 + MaxSteps

-----------------------------------------------------------------------------
(* The reference result of sanitize_post_text (SpecSanitize), computed     *)
(* from positions in the text rather than by the steps of the code.        *)

\* the k-th smallest element of a set of positions
NthOf(S, k) == CHOOSE i \in S : Cardinality({j \in S : j < i}) = k - 1

\* the characters of s at the positions of S, in order
Pick(s, S) == [k \in 1..Cardinality(S) |-> s[NthOf(S, k)]]

\* the lines of t: the stretches between its line breaks
RefLines(t) ==
    LET breaks == {i \in 1..Len(t) : t[i] \in LineBreaks}
        n == Cardinality(breaks)
        from(k) == IF k = 1 THEN 1 ELSE NthOf(breaks, k - 1) + 1
        to(k) == IF k = n + 1 THEN Len(t) ELSE NthOf(breaks, k) - 1
    IN  [k \in 1..(n + 1) |-> SubSeq(t, from(k), to(k))]

\* a line without its leading and trailing whitespace
RefTrim(l) ==
    LET inked == {i \in 1..Len(l) : l[i] \notin Whitespace}
    IN  IF inked = {} THEN <<>>
        ELSE SubSeq(l, NthOf(inked, 1), NthOf(inked, Cardinality(inked)))

\* whether a trimmed line survives: it is not blank, does not start with
\* "[image" in any letter case, does not start with "{" and does not end with "}"
RefSurvives(l) ==
    /\ Len(l) > 0
    /\ ~(Len(l) >= 6 /\ \A i \in 1..6 : LowerChar(l[i]) = ImageMarker[i])
    /\ l[1] # "{"
    /\ l[Len(l)] # "}"

RECURSIVE RefSpaced(_)
\* every line preceded by one space
RefSpaced(ls) == IF ls = <<>> THEN <<>> ELSE <<" ">> \o Head(ls) \o RefSpaced(Tail(ls))

\* every run of whitespace of s as one space: the first character of a run
\* stays, as a space, and the others go
RefCollapse(s) ==
    LET spaced == [i \in 1..Len(s) |-> IF s[i] \in Whitespace THEN " " ELSE s[i]]
    IN  Pick(spaced, {i \in 1..Len(s) : s[i] \notin Whitespace \/ i = 1
                                         \/ s[i - 1] \notin Whitespace})

\* the reference result for the text t
Reference(t) ==
    LET trimmed == [k \in 1..Len(RefLines(t)) |-> RefTrim(RefLines(t)[k])]
        surviving == SelectSeq(trimmed, RefSurvives)
    IN  RefTrim(RefCollapse(RefSpaced(surviving)))

\* C18: for all input texts sanitize_post_text returns the reference result:
\* the lines of the input, each trimmed, without the blank lines, the lines
\* that start with "[image" in any letter case and the lines that start with
\* "{" or end with "}", joined in their order with single spaces, every run of
\* whitespace collapsed to one space, and trimmed; the empty input gives the
\* empty string.
C18_MatchesReference ==
    sanStage >= 1 =>
        /\ clean = Reference(text)
        /\ text = <<>> => clean = <<>>

\* C18 witness: an input of two lines, the first with a trailing tab, was
\* sanitized to the two trimmed lines joined by one space.
C18_Witness ==
    /\ sanStage >= 1
    /\ text = <<"x", "\t", "\n", "x">>
    /\ clean = <<"x", " ", "x">>

-----------------------------------------------------------------------------
(* The reference result of _sanitize_plan (SpecPlan), computed from the    *)
(* positions of the raw list rather than by the loop of the code.          *)

\* whether entry i of the raw list is a generate_image step
RefIsImage(items, i) == items[i].kind = "dict" /\ items[i].tool = GenerateImage

\* the positions of the steps that can be accepted: mappings that name a tool
\* of the registry, a generate_image step only if none was proposed before it
RefCandidates(items) ==
    {i \in 1..Len(items) :
        /\ items[i].kind = "dict"
        /\ items[i].tool \in TOOLS
        /\ RefIsImage(items, i) => \A j \in 1..(i - 1) : ~RefIsImage(items, j)}

\* the positions of the accepted steps: the first 3 candidates
RefAccepted(items) ==
    {i \in RefCandidates(items) :
        Cardinality({j \in RefCandidates(items) : j < i}) < MaxSteps}

\* the step made of entry e, with its own params or the empty mapping
RefStep(e) ==
    [tool |-> e.tool, params |-> IF e.params = NoParams THEN EmptyParams ELSE e.params]

\* the accepted steps without the image step, in their order, then the image step
RefPlan(items) ==
    LET accepted == RefAccepted(items)
        plain == {i \in accepted : ~RefIsImage(items, i)}
        image == {i \in accepted : RefIsImage(items, i)}
    IN  [k \in 1..Cardinality(plain) |-> RefStep(items[NthOf(plain, k)])]
            \o [k \in 1..Cardinality(image) |-> RefStep(items[NthOf(image, k)])]

\* C19: for every raw plan list that _sanitize_plan returns on, it accepts
\* steps in the proposed order and stops after the 3rd accepted step; a
\* generate_image step is accepted only if no earlier one was, so the image
\* step kept is the first proposed one, with its own params; the output is the
\* accepted non-image steps in their order followed by the accepted image
\* step, and a generate_image step that comes after 3 accepted steps is dropped.
C19_AcceptsInOrderUpToThree ==
    (planStage = 1 /\ rawPlan.kind = "list" /\ ~planOut.raised) =>
        /\ planOut.steps = RefPlan(rawPlan.items)
        /\ Cardinality(RefAccepted(rawPlan.items)) <= MaxSteps
        /\ \A i \in 1..Len(rawPlan.items) :
               (RefIsImage(rawPlan.items, i)
                   /\ Cardinality({j \in RefCandidates(rawPlan.items) : j < i}) >= MaxSteps)
               => /\ Len(planOut.steps) = MaxSteps
                  /\ planOut.steps = RefPlan(SubSeq(rawPlan.items, 1, i - 1))

\* C19 witness: of two image steps and two other steps, proposed in turn, the
\* output has the two other steps in their order and then the first image
\* step with its own params.
C19_Witness ==
    /\ planStage = 1
    /\ rawPlan = RawList(<<Step(GenerateImage, PromptX), Step("web_search", PromptX),
                           Step(GenerateImage, PromptY), Step("web_search", PromptY)>>)
    /\ planOut = [raised |-> FALSE,
                  steps |-> <<[tool |-> "web_search", params |-> PromptX],
                              [tool |-> "web_search", params |-> PromptY],
                              [tool |-> GenerateImage, params |-> PromptX]>>]

-----------------------------------------------------------------------------
(* SpecLoop: two invocations of run() as tasks of one event loop. A task   *)
(* runs on the loop's thread from one await to the next; while it is       *)
(* suspended at an await the loop can resume another task. time.sleep is   *)
(* no await: it keeps the thread for the seconds it waits. Each task is    *)
(* followed from await to await; the values it handles are those of Spec.  *)

\* the awaits an exception of which ends the run in the top-level handler
\* (those of generate_image and upload_media are caught where they are made)
FatalAwaits == {"posts", "plan", "react", "final", "fallback", "save"}

\* the awaits of run() other than the publish attempt of the retry loop
OtherAwaits == FatalAwaits \cup {"tool", "upload"}

\* the await the loop over the plan suspends at with n steps left, the image
\* step being the last of them if there is one
StepAwait(n, img) ==
    IF n = 0 THEN "final" ELSE IF n = 1 /\ img THEN "tool" ELSE "react"

\* the event loop can resume task t: the thread is not held by a time.sleep
\* and the task has not returned
Runnable(t) == sleeper = 0 /\ task_pc[t] # "done"

\* run() is entered: it runs up to the await of get_recent_posts_formatted,
\* or returns the refusal of the tier manager
LoopStart(t) ==
    /\ Runnable(t)
    /\ task_pc[t] = "start"
    /\ \E p \in {"posts", "done"} : task_pc' = [task_pc EXCEPT ![t] = p]
    /\ UNCHANGED <<task_steps, task_image, task_attempt, sleeper, sleep_left>>
    /\ UNCHANGED <<sanVars, planVars, runVars>>

\* the call a task awaits returns (or raises inside a try/except of run), and
\* the task runs on to its next await
LoopAwaitReturns(t) ==
    /\ Runnable(t)
    /\ task_pc[t] \in OtherAwaits
    /\ LET p == task_pc[t]
           goto(q) == task_pc' = [task_pc EXCEPT ![t] = q]
       IN  CASE p = "posts" -> goto("plan") /\ UNCHANGED <<task_steps, task_image>>
             [] p = "plan" ->
                  \E n \in 0..MaxSteps, img \in BOOLEAN :
                      /\ img => n >= 1
                      /\ task_steps' = [task_steps EXCEPT ![t] = n]
                      /\ task_image' = [task_image EXCEPT ![t] = img]
                      /\ goto(StepAwait(n, img))
             [] p = "tool" -> goto("react") /\ UNCHANGED <<task_steps, task_image>>
             [] p = "react" ->
                  /\ task_steps' = [task_steps EXCEPT ![t] = @ - 1]
                  /\ goto(StepAwait(task_steps[t] - 1, task_image[t]))
                  /\ UNCHANGED task_image
             [] p = "final" ->
                  /\ \E q \in {"upload", "post"} :
                         /\ q = "upload" => task_image[t]
                         /\ goto(q)
                  /\ UNCHANGED <<task_steps, task_image>>
             [] p = "upload" -> goto("post") /\ UNCHANGED <<task_steps, task_image>>
             [] p = "fallback" -> goto("save") /\ UNCHANGED <<task_steps, task_image>>
             [] p = "save" -> goto("done") /\ UNCHANGED <<task_steps, task_image>>
    /\ UNCHANGED <<task_attempt, sleeper, sleep_left>>
    /\ UNCHANGED <<sanVars, planVars, runVars>>

\* the call a task awaits raises and the top-level handler returns the result
LoopAwaitRaises(t) ==
    /\ Runnable(t)
    /\ task_pc[t] \in FatalAwaits
    /\ task_pc' = [task_pc EXCEPT ![t] = "done"]
    /\ UNCHANGED <<task_steps, task_image, task_attempt, sleeper, sleep_left>>
    /\ UNCHANGED <<sanVars, planVars, runVars>>

\* await self.twitter.post(...) of the retry loop returns: break
LoopPostReturns(t) ==
    /\ Runnable(t)
    /\ task_pc[t] = "post"
    /\ task_pc' = [task_pc EXCEPT ![t] = "save"]
    /\ UNCHANGED <<task_steps, task_image, task_attempt, sleeper, sleep_left>>
    /\ UNCHANGED <<sanVars, planVars, runVars>>

\* await self.twitter.post(...) of the retry loop raises: the failure is
\* logged and the task calls time.sleep(5), on the thread of the event loop
LoopPostRaises(t) ==
    /\ Runnable(t)
    /\ task_pc[t] = "post"
    /\ task_pc' = [task_pc EXCEPT ![t] = "sleep"]
    /\ task_attempt' = [task_attempt EXCEPT ![t] = @ + 1]
    /\ sleeper' = t
    /\ sleep_left' = SleepSeconds
    /\ UNCHANGED <<task_steps, task_image>>
    /\ UNCHANGED <<sanVars, planVars, runVars>>

\* one second of a time.sleep passes
LoopTick ==
    /\ sleeper # 0
    /\ sleep_left > 0
    /\ sleep_left' = sleep_left - 1
    /\ UNCHANGED <<task_pc, task_steps, task_image, task_attempt, sleeper>>
    /\ UNCHANGED <<sanVars, planVars, runVars>>

\* time.sleep returns: the task goes on to its next attempt, or to the
\* fallback after the last one, and is suspended at that await
LoopSleepEnds(t) ==
    /\ sleeper = t
    /\ sleep_left = 0
    /\ sleeper' = 0
    /\ task_pc' = [task_pc EXCEPT ![t] = IF AttemptsExhausted(task_attempt[t])
                                         THEN "fallback" ELSE "post"]
    /\ UNCHANGED <<task_steps, task_image, task_attempt, sleep_left>>
    /\ UNCHANGED <<sanVars, planVars, runVars>>

\* a step of task t that the event loop schedules
LoopStep(t) ==
    \/ LoopStart(t)
    \/ LoopAwaitReturns(t)
    \/ LoopAwaitRaises(t)
    \/ LoopPostReturns(t)
    \/ LoopPostRaises(t)

InitLoop ==
    /\ task_pc = [t \in Tasks |-> "start"]
    /\ task_steps = [t \in Tasks |-> 0]
    /\ task_image = [t \in Tasks |-> FALSE]
    /\ task_attempt = [t \in Tasks |-> 0]
    /\ sleeper = 0
    /\ sleep_left = 0
    /\ SanitizeIdle
    /\ PlanIdle
    /\ RunIdle

NextLoop ==
    \/ \E t \in Tasks : LoopStart(t)
    \/ \E t \in Tasks : LoopAwaitReturns(t)
    \/ \E t \in Tasks : LoopAwaitRaises(t)
    \/ \E t \in Tasks : LoopPostReturns(t)
    \/ \E t \in Tasks : LoopPostRaises(t)
    \/ LoopTick
    \/ \E t \in Tasks : LoopSleepEnds(t)

SpecLoop == InitLoop /\ [][NextLoop]_vars

\* C15: when two invocations of run execute on the same event loop, the wait
\* between failed publish attempts of one invocation blocks only that
\* invocation: while it waits, the other invocation, if it has not returned,
\* can be scheduled and make a step of its own.
C15_WaitBlocksOnlyWaiter ==
    \A t \in Tasks, u \in Tasks :
        (t # u /\ task_pc[t] = "sleep" /\ sleep_left > 0 /\ task_pc[u] # "done")
            => ENABLED LoopStep(u)

-----------------------------------------------------------------------------
(* Claims about the roles of the conversation, the saved record, the       *)
(* result and the termination of run() (Spec).                             *)

\* the messages of a history after the leading system message alternate
\* user, assistant, user, assistant, ...
Alternates(msgs) ==
    /\ Len(msgs) >= 1 => msgs[1].role = "system"
    /\ \A k \in 2..Len(msgs) :
           msgs[k].role = (IF k % 2 = 0 THEN "user" ELSE "assistant")

\* C21: in the history passed to every call of llm.chat, the messages after
\* the leading system message strictly alternate user, assistant, user,
\* assistant, ...: no two consecutive messages have the same role, for every
\* validated plan and every outcome of the image tool.
C21_RolesAlternate ==
    \A j \in 1..Len(LlmCalls) : Alternates(LlmCalls[j].messages)

\* C22: whenever run returns success=true, the result and the record passed
\* to save_post describe the post that was published: their text is the text
\* of the publish call that succeeded and has_image is true exactly if that
\* call carried media ids, also when the 3 attempts of the candidate text
\* failed and the fallback was published.
C22_ResultDescribesPublished ==
    (pc = "done" /\ result.success = TRUE) =>
        /\ Len(SuccessfulPosts) = 1
        /\ Len(SaveCalls) = 1
        /\ LET published == SuccessfulPosts[1]
           IN  /\ result.text = published.text
               /\ SaveCalls[1].text = published.text
               /\ result.has_image = (published.media_ids # None)
               /\ SaveCalls[1].has_image = (published.media_ids # None)

\* C23: a run returns success=true if and only if a publish call succeeded
\* during it: a run that returns success=false has left no post published (in
\* particular when the storage write after a successful publish raises), and
\* a run in which no publish call succeeded never returns success=true.
C23_SuccessIffPublished ==
    pc = "done" => ((result.success = TRUE) <=> (SuccessfulPosts # <<>>))

(* SpecLive: one invocation of run() in which every collaborator call       *)
(* eventually returns or raises, so that the step that is pending (a call   *)
(* and the code up to the next call) is eventually made.                    *)

SpecLive == Spec /\ WF_vars(Next)

\* the loops of run() stay within their bounds
LoopsBounded ==
    /\ Len(plan) <= MaxSteps
    /\ Len(ReactionCalls) <= MaxSteps
    /\ Len(AttemptCalls) <= MaxAttempts
    /\ attempt <= MaxAttempts
    /\ slept <= MaxAttempts * SleepSeconds

\* C24: provided every collaborator call eventually returns or raises, every
\* invocation of run eventually completes by returning a result (a success or
\* a captured error): the reaction loop runs at most 3 times, the publish loop
\* at most 3 times, and no path loops or waits forever.
C24_RunTerminates ==
    /\ <>(pc = "done" /\ result # NoResult /\ "success" \in DOMAIN result)
    /\ []LoopsBounded
    /\ [](pc = "done" => [](pc = "done"))

\* C24 witness: a run with 3 reactions whose 3 publish attempts failed has
\* returned after the fallback publish.
C24_Witness ==
    /\ pc = "done"
    /\ Len(ReactionCalls) = MaxSteps
    /\ AllAttemptsFailed
    /\ slept = MaxAttempts * SleepSeconds
    /\ FallbackCalls # <<>>
    /\ result # NoResult

====
